---- MODULE Spec2Model ----
(***************************************************************************)
(* Model of app.py: a Streamlit chat application.                          *)
(*                                                                         *)
(* Every browser session has its own st.session_state (logged_in,          *)
(* username, users, chat_histories).  The compiled LangGraph workflow and  *)
(* its MemorySaver are created once per process (@st.cache_resource) and   *)
(* are shared by all sessions; the checkpointed state is keyed by          *)
(* thread_id = username and its "messages" channel is reduced with         *)
(* operator.add.                                                           *)
(*                                                                         *)
(* One action is one script run triggered by one widget interaction.  The  *)
(* chat turn is the only handler that waits on the outside world, so it is *)
(* cut at that wait: ChatInput runs the handler up to the moment           *)
(* llm.invoke is issued, CompletionReturns / CompletionFails run the rest. *)
(* The timestamps (created_at, timestamp) are never read by the program    *)
(* and are left out of the records.                                        *)
(***************************************************************************)
EXTENDS Integers, Sequences, FiniteSets, TLC

\* ------------------------------------------------------------------ bounds
NumSessions == 2        \* concurrent browser sessions
MaxCalls == 2           \* completion calls issued in one behaviour

Sessions == 1..NumSessions

\* ------------------------------------------------------------------ inputs
\* What can be typed in the forms: an empty field, two names, an empty
\* password, one that is one character too short, one of exactly the
\* minimum length and a second valid one that differs from it only in case.
Usernames == {"", "alice", "bob"}
Passwords == {"", "short", "secret", "Secret"}
Prompts == {"hello", "bye"}
Responses == {"hi"}

\* st.session_state.username = None
None == "<None>"

\* ------------------------------------------------- messages shown by the UI
MinPasswordLen == 6
UsernameExists == "Username already exists"
PasswordTooShort == "Password must be at least 6 characters"
CannotBeEmpty == "Username and password cannot be empty"
AccountCreated == "Account created successfully"
UsernameNotFound == "Username not found"
IncorrectPassword == "Incorrect password"
LoggedIn == "Logged in successfully"
EnterBoth == "Please enter both username and password"
FillAllFields == "Please fill in all fields"
PasswordsDontMatch == "Passwords don't match"
HistoryCleared == "Chat history cleared!"
CompletionError == "Error: completion call failed"
NoNotice == ""

VARIABLES
    logged_in,        \* [Sessions -> BOOLEAN]         st.session_state.logged_in
    username,         \* [Sessions -> name or None]    st.session_state.username
    users,            \* [Sessions -> [names -> [password]]]  st.session_state.users
    chat_histories,   \* [Sessions -> [names -> Seq([role, content])]]
    memory,           \* [thread id -> Seq(message)]   the MemorySaver of the shared graph
    pc,               \* [Sessions -> {"idle", "invoking"}] position of the session's script
    invoked,          \* [Sessions -> Seq(message)]    argument of the llm.invoke in flight
    notice,           \* [Sessions -> STRING]          text the last handler gave st.success / st.error
    calls             \* number of llm.invoke calls issued so far

vars == <<logged_in, username, users, chat_histories, memory, pc, invoked, notice, calls>>

Init ==
    /\ logged_in = [s \in Sessions |-> FALSE]
    /\ username = [s \in Sessions |-> None]
    /\ users = [s \in Sessions |-> <<>>]
    /\ chat_histories = [s \in Sessions |-> <<>>]
    /\ memory = [t \in Usernames |-> <<>>]
    /\ pc = [s \in Sessions |-> "idle"]
    /\ invoked = [s \in Sessions |-> <<>>]
    /\ notice = [s \in Sessions |-> NoNotice]
    /\ calls = 0

\* --------------------------------------------------------- authentication
\* Mutant: the length test is off by one.
signup_message_off_by_one(us, u, p) ==
    IF u \in DOMAIN us THEN UsernameExists
    ELSE IF Len(p) <= MinPasswordLen THEN PasswordTooShort
    ELSE IF u = "" \/ p = "" THEN CannotBeEmpty
    ELSE AccountCreated

\* Mutant: the password is validated before the name is looked up.
signup_message_validate_first(us, u, p) ==
    IF Len(p) < MinPasswordLen THEN PasswordTooShort
    ELSE IF u = "" \/ p = "" THEN CannotBeEmpty
    ELSE IF u \in DOMAIN us THEN UsernameExists
    ELSE AccountCreated

\* Mutant: the length test is missing.
signup_message_no_length(us, u, p) ==
    IF u \in DOMAIN us THEN UsernameExists
    ELSE IF u = "" \/ p = "" THEN CannotBeEmpty
    ELSE AccountCreated

\* The message signup(username, password) returns, given the users dict.
signup_message(us, u, p) ==
    IF u \in DOMAIN us THEN UsernameExists
    ELSE IF Len(p) < MinPasswordLen THEN PasswordTooShort
    ELSE IF u = "" \/ p = "" THEN CannotBeEmpty
    ELSE AccountCreated

\* Mutant: the record is stored before the name is looked up.
signup_users_overwrite(us, u, p) ==
    IF signup_message(us, u, p) \in {AccountCreated, UsernameExists}
    THEN (u :> [password |-> p]) @@ us
    ELSE us

\* users after signup(username, password).
signup_users(us, u, p) ==
    IF signup_message(us, u, p) = AccountCreated
    THEN (u :> [password |-> p]) @@ us
    ELSE us

\* Mutant: the transcript is initialised before the checks.
signup_histories_always(us, hs, u, p) == (u :> <<>>) @@ hs

\* chat_histories after signup(username, password).
signup_histories(us, hs, u, p) ==
    IF signup_message(us, u, p) = AccountCreated
    THEN (u :> <<>>) @@ hs
    ELSE hs

\* Mutant: the password is compared ignoring case.
login_message_ignore_case(us, u, p) ==
    LET lower(x) == IF x = "Secret" THEN "secret" ELSE x
    IN  IF u \notin DOMAIN us THEN UsernameNotFound
        ELSE IF lower(us[u].password) # lower(p) THEN IncorrectPassword
        ELSE LoggedIn

\* The message login(username, password) returns, given the users dict.
login_message(us, u, p) ==
    IF u \notin DOMAIN us THEN UsernameNotFound
    ELSE IF us[u].password # p THEN IncorrectPassword
    ELSE LoggedIn

\* Mutant: the history is initialised without looking for an existing one.
EnsureHistory_reset(hs, u) == (u :> <<>>) @@ hs

\* "Initialize chat history for user if not exists", run by every script run
\* of an authenticated session.
EnsureHistory(hs, u) ==
    IF u \in DOMAIN hs THEN hs ELSE (u :> <<>>) @@ hs

\* ------------------------------------------------------ sidebar handlers
\* log the session in: login() lines 93-94.
login_session(s, u) ==
    /\ logged_in' = [logged_in EXCEPT ![s] = TRUE]
    /\ username' = [username EXCEPT ![s] = u]

\* login(username, password) as called by the Login button.
login(s, u, p) ==
    /\ notice' = [notice EXCEPT ![s] = login_message(users[s], u, p)]
    /\ IF login_message(users[s], u, p) = LoggedIn
       THEN /\ login_session(s, u)
            \* st.rerun(): the authenticated page initialises the history
            /\ chat_histories' = [chat_histories EXCEPT ![s] = EnsureHistory(@, u)]
       ELSE UNCHANGED <<logged_in, username, chat_histories>>

\* The Login button, shown only to an anonymous session.
LoginButton(s, u, p) ==
    /\ pc[s] = "idle"
    /\ ~logged_in[s]
    /\ IF u # "" /\ p # ""
       THEN login(s, u, p)
       ELSE /\ notice' = [notice EXCEPT ![s] = EnterBoth]
            /\ UNCHANGED <<logged_in, username, chat_histories>>
    /\ UNCHANGED <<users, memory, pc, invoked, calls>>

\* signup(username, password) as called by the Sign Up button.
signup(s, u, p) ==
    /\ notice' = [notice EXCEPT ![s] = signup_message(users[s], u, p)]
    /\ users' = [users EXCEPT ![s] = signup_users(@, u, p)]
    /\ chat_histories' =
           [chat_histories EXCEPT ![s] = signup_histories(users[s], @, u, p)]

\* The text the Sign Up form shows without calling signup(), or NoNotice
\* when the form passes its input on to signup().
signup_form_message(u, p, c) ==
    IF u = "" \/ p = "" THEN FillAllFields
    ELSE IF p # c THEN PasswordsDontMatch
    ELSE NoNotice

\* Mutant: a successful signup logs the new user in.
SignUpButton_autologin(s, u, p, c) ==
    /\ pc[s] = "idle"
    /\ ~logged_in[s]
    /\ IF signup_form_message(u, p, c) = NoNotice
       THEN /\ signup(s, u, p)
            /\ IF signup_message(users[s], u, p) = AccountCreated
               THEN login_session(s, u)
               ELSE UNCHANGED <<logged_in, username>>
       ELSE /\ notice' = [notice EXCEPT ![s] = signup_form_message(u, p, c)]
            /\ UNCHANGED <<users, chat_histories, logged_in, username>>
    /\ UNCHANGED <<memory, pc, invoked, calls>>

\* The Sign Up button, shown only to an anonymous session.
SignUpButton(s, u, p, c) ==
    /\ pc[s] = "idle"
    /\ ~logged_in[s]
    /\ IF signup_form_message(u, p, c) = NoNotice
       THEN signup(s, u, p)
       ELSE /\ notice' = [notice EXCEPT ![s] = signup_form_message(u, p, c)]
            /\ UNCHANGED <<users, chat_histories>>
    /\ UNCHANGED <<logged_in, username, memory, pc, invoked, calls>>

\* Mutant: logout forgets to unbind the user.
LogoutButton_keep_name(s) ==
    /\ pc[s] = "idle"
    /\ logged_in[s]
    /\ logged_in' = [logged_in EXCEPT ![s] = FALSE]
    /\ notice' = [notice EXCEPT ![s] = NoNotice]
    /\ UNCHANGED <<username, users, chat_histories, memory, pc, invoked, calls>>

\* The Logout button, shown only to an authenticated session.
LogoutButton(s) ==
    /\ pc[s] = "idle"
    /\ logged_in[s]
    /\ logged_in' = [logged_in EXCEPT ![s] = FALSE]
    /\ username' = [username EXCEPT ![s] = None]
    /\ notice' = [notice EXCEPT ![s] = NoNotice]
    /\ UNCHANGED <<users, chat_histories, memory, pc, invoked, calls>>

\* Mutant: the button empties every transcript of the store.
clear_histories_all(hs, u) == [x \in DOMAIN hs \cup {u} |-> <<>>]

\* chat_histories after the Clear Chat History button of user u.
clear_histories(hs, u) == (u :> <<>>) @@ hs

\* The Clear Chat History button, shown only to an authenticated session.
ClearButton(s) ==
    /\ pc[s] = "idle"
    /\ logged_in[s]
    /\ chat_histories' =
           [chat_histories EXCEPT ![s] = EnsureHistory(clear_histories(@, username[s]), username[s])]
    /\ notice' = [notice EXCEPT ![s] = HistoryCleared]
    /\ UNCHANGED <<logged_in, username, users, memory, pc, invoked, calls>>

\* ------------------------------------------------------------- chat turn
\* A transcript entry (its timestamp left out).
Entry(role, content) == [role |-> role, content |-> content]

\* HumanMessage(content=...) / AIMessage(content=...).  origin is not a field
\* of the program's objects: it records the session whose script created the
\* message, so that properties can tell two sessions' messages apart.
HumanMessage(content, s) == [type |-> "human", content |-> content, origin |-> s]
AIMessage(content, s) == [type |-> "ai", content |-> content, origin |-> s]

\* "Prepare messages for LangGraph": user entries become HumanMessage,
\* assistant entries AIMessage, entries of any other role are skipped.
RECURSIVE PrepareMessages(_, _)
PrepareMessages(h, s) ==
    IF h = <<>> THEN <<>>
    ELSE LET m == Head(h)
             rest == PrepareMessages(Tail(h), s)
         IN  IF m.role = "user" THEN <<HumanMessage(m.content, s)>> \o rest
             ELSE IF m.role = "assistant" THEN <<AIMessage(m.content, s)>> \o rest
             ELSE rest

\* The reducer of AgentState.messages: operator.add.
messages_reducer(old, new) == old \o new

\* The "messages" channel of the run app.invoke({"messages": input}, config)
\* starts: the checkpoint of the thread, loaded from the MemorySaver, updated
\* with the input through the channel's reducer.
graph_input(checkpoint, input) == messages_reducer(checkpoint, input)

\* Mutant: the response is put in front of the channel's messages.
graph_output_prepend(state, response) == messages_reducer(<<response>>, state)

\* The channel after chatbot_node returned {"messages": [response]}.
graph_output(state, response) == messages_reducer(state, <<response>>)

\* A prompt is submitted in the chat input of an authenticated session: the
\* handler up to and including the moment chatbot_node issues llm.invoke.
ChatInput(s, prompt) ==
    /\ pc[s] = "idle"
    /\ logged_in[s]
    /\ calls < MaxCalls
    /\ LET u == username[s]
           hs == EnsureHistory(chat_histories[s], u)
           history == Append(hs[u], Entry("user", prompt))
           state == graph_input(memory[u], PrepareMessages(history, s))
       IN  /\ chat_histories' = [chat_histories EXCEPT ![s] = (u :> history) @@ hs]
           \* the run saves its input checkpoint before the node runs
           /\ memory' = [memory EXCEPT ![u] = state]
           /\ invoked' = [invoked EXCEPT ![s] = state]
    /\ pc' = [pc EXCEPT ![s] = "invoking"]
    /\ calls' = calls + 1
    /\ notice' = [notice EXCEPT ![s] = NoNotice]
    /\ UNCHANGED <<logged_in, username, users>>

\* llm.invoke returns a response: the node's output is checkpointed, and the
\* handler appends result["messages"][-1].content to the transcript.
CompletionReturns(s, r) ==
    /\ pc[s] = "invoking"
    /\ LET u == username[s]
           result == graph_output(invoked[s], AIMessage(r, s))
           ai_response == result[Len(result)].content
       IN  /\ memory' = [memory EXCEPT ![u] = result]
           /\ chat_histories' = [chat_histories EXCEPT ![s] =
                  [@ EXCEPT ![u] = Append(@, Entry("assistant", ai_response))]]
    /\ pc' = [pc EXCEPT ![s] = "idle"]
    /\ invoked' = [invoked EXCEPT ![s] = <<>>]
    /\ UNCHANGED <<logged_in, username, users, notice, calls>>

\* Mutant: the handler issues the call again when it fails.
CompletionFails_retry(s) ==
    /\ pc[s] = "invoking"
    /\ calls < MaxCalls
    /\ calls' = calls + 1
    /\ notice' = [notice EXCEPT ![s] = CompletionError]
    /\ UNCHANGED <<logged_in, username, users, chat_histories, memory, pc, invoked>>

\* Mutant: the handler takes the user message back when the call fails.
CompletionFails_rollback(s) ==
    /\ pc[s] = "invoking"
    /\ pc' = [pc EXCEPT ![s] = "idle"]
    /\ invoked' = [invoked EXCEPT ![s] = <<>>]
    /\ notice' = [notice EXCEPT ![s] = CompletionError]
    /\ chat_histories' = [chat_histories EXCEPT ![s] =
           [@ EXCEPT ![username[s]] = SubSeq(@, 1, Len(@) - 1)]]
    /\ UNCHANGED <<logged_in, username, users, memory, calls>>

\* llm.invoke raises: app.invoke raises, "except Exception" shows the error.
CompletionFails(s) ==
    /\ pc[s] = "invoking"
    /\ pc' = [pc EXCEPT ![s] = "idle"]
    /\ invoked' = [invoked EXCEPT ![s] = <<>>]
    /\ notice' = [notice EXCEPT ![s] = CompletionError]
    /\ UNCHANGED <<logged_in, username, users, chat_histories, memory, calls>>

\* ---------------------------------------------------------- specification
\* One script run of session s, its inputs drawn from names N, passwords P
\* and prompts Q.
Step(s, N, P, Q) ==
    \/ \E u \in N, p \in P : LoginButton(s, u, p)
    \/ \E u \in N, p \in P, c \in P : SignUpButton(s, u, p, c)
    \/ LogoutButton(s)
    \/ ClearButton(s)
    \/ \E prompt \in Q : ChatInput(s, prompt)
    \/ \E r \in Responses : CompletionReturns(s, r)
    \/ CompletionFails(s)

\* One browser session using the application, with every input.
Next == Step(1, Usernames, Passwords, Prompts)

Spec == Init /\ [][Next]_vars

\* NumSessions browser sessions of the one server process, their script runs
\* interleaved, each registering the same name.
NextShared == \E s \in Sessions : Step(s, {"alice"}, {"secret"}, Prompts)

SpecShared == Init /\ [][NextShared]_vars

\* ================================================================ claims
Last(q) == q[Len(q)]

\* the transcript of the user session s is authenticated as
Transcript(s) == chat_histories[s][username[s]]

\* ----------------------------------------------------------------- C1
\* C1: a press of the Login button with name u and password p logs the
\* session in iff u is a key of users and the stored password equals p; when
\* login(u, p) is called it answers "Username not found" for an absent u and
\* "Incorrect password" for a present u with another password, and after
\* either failure the session is anonymous with no user bound.
C1_LoginExact ==
    [][\A s \in Sessions, u \in Usernames, p \in Passwords :
          LoginButton(s, u, p) =>
              LET found == u \in DOMAIN users[s]
                  match == found /\ users[s][u].password = p
                  called == u # "" /\ p # ""
              IN  /\ logged_in'[s] <=> match
                  /\ match => notice'[s] = LoggedIn /\ username'[s] = u
                  /\ ~match => ~logged_in'[s] /\ username'[s] = None
                  /\ called /\ ~found => notice'[s] = UsernameNotFound
                  /\ called /\ found /\ ~match => notice'[s] = IncorrectPassword
      ]_vars

\* a login with a wrong password for a registered name has been refused
C1_Witness ==
    /\ notice[1] = IncorrectPassword
    /\ DOMAIN users[1] # {}
    /\ ~logged_in[1] /\ username[1] = None

\* ----------------------------------------------------------------- C2
\* C2: signup(u, p) with a non-empty u that is not a key of users and a p of
\* at least 6 characters answers "Account created successfully", adds u with
\* password p and nothing else to users, and creates the empty transcript of u.
C2_SignupCreates ==
    [][\A s \in Sessions, u \in Usernames, p \in Passwords :
          (SignUpButton(s, u, p, p) /\ u # "" /\ u \notin DOMAIN users[s]
              /\ Len(p) >= 6) =>
              /\ notice'[s] = AccountCreated
              /\ DOMAIN users'[s] = DOMAIN users[s] \cup {u}
              /\ users'[s][u].password = p
              /\ \A v \in DOMAIN users[s] : users'[s][v] = users[s][v]
              /\ u \in DOMAIN chat_histories'[s]
              /\ chat_histories'[s][u] = <<>>
      ]_vars

\* an account with a password of exactly 6 characters has been created
C2_Witness ==
    /\ notice[1] = AccountCreated
    /\ \E u \in DOMAIN users[1] :
          /\ Len(users[1][u].password) = 6
          /\ chat_histories[1][u] = <<>>

\* ----------------------------------------------------------------- C3
\* C3 as stated: a press of Sign Up with a name that is already a key of
\* users answers "Username already exists" whatever the password and its
\* confirmation are, and leaves users and chat_histories unchanged.
C3_Original ==
    [][\A s \in Sessions, u \in Usernames, p \in Passwords, c \in Passwords :
          (SignUpButton(s, u, p, c) /\ u \in DOMAIN users[s]) =>
              /\ notice'[s] = UsernameExists
              /\ users' = users
              /\ chat_histories' = chat_histories
      ]_vars

\* C3 amended: a press of Sign Up with a name that is already a key of users
\* always fails and leaves users and chat_histories unchanged; it answers
\* "Username already exists" whenever the password is non-empty and equals
\* its confirmation (too short or valid), "Please fill in all fields" when
\* the password is empty and "Passwords don't match" when a non-empty
\* password differs from its confirmation.
C3_DuplicateFails ==
    [][\A s \in Sessions, u \in Usernames, p \in Passwords, c \in Passwords :
          (SignUpButton(s, u, p, c) /\ u \in DOMAIN users[s]) =>
              /\ users' = users
              /\ chat_histories' = chat_histories
              /\ notice'[s] = (IF p = "" THEN FillAllFields
                               ELSE IF p # c THEN PasswordsDontMatch
                               ELSE UsernameExists)
      ]_vars

\* a signup with a registered name has been refused as a duplicate
C3_Witness ==
    /\ notice[1] = UsernameExists
    /\ DOMAIN users[1] # {}

\* ----------------------------------------------------------------- C4
\* C4: logout changes only the session (logged_in becomes false, no user
\* bound) and a press of Login, successful or not, changes no transcript:
\* every transcript is the same after the step as before, so logout followed
\* by a successful login finds the user's transcript as it was.
C4_LogoutLoginKeepTranscripts ==
    [][\A s \in Sessions :
          /\ LogoutButton(s) =>
                /\ ~logged_in'[s] /\ username'[s] = None
                /\ chat_histories' = chat_histories
                /\ users' = users /\ memory' = memory
          /\ \A u \in Usernames, p \in Passwords :
                LoginButton(s, u, p) => chat_histories' = chat_histories
      ]_vars

\* a user with a recorded transcript has just logged in again
C4_Witness ==
    /\ notice[1] = LoggedIn
    /\ logged_in[1]
    /\ Len(Transcript(1)) > 0

\* ----------------------------------------------------------------- C5
\* C5: the Clear Chat History button pressed in a session authenticated as A
\* leaves A's transcript empty and the transcript of every other user as it was.
C5_ClearOnlyOwn ==
    [][\A s \in Sessions :
          ClearButton(s) =>
              /\ chat_histories'[s][username[s]] = <<>>
              /\ DOMAIN chat_histories'[s] = DOMAIN chat_histories[s]
              /\ \A b \in DOMAIN chat_histories[s] \ {username[s]} :
                    chat_histories'[s][b] = chat_histories[s][b]
              /\ \A t \in Sessions \ {s} : chat_histories'[t] = chat_histories[t]
      ]_vars

\* A has cleared the history while another user has a recorded transcript
C5_Witness ==
    /\ notice[1] = HistoryCleared
    /\ logged_in[1]
    /\ Transcript(1) = <<>>
    /\ \E b \in DOMAIN chat_histories[1] \ {username[1]} :
          Len(chat_histories[1][b]) > 0

\* ----------------------------------------------------------------- C6
\* C6: submitting p appends the user message p to the transcript and issues
\* the call; while the call is in flight the transcript ends with that user
\* message; the return of the call with response r appends the assistant
\* message r and nothing else: T becomes T, user p, assistant r.
C6_TurnAppendsInOrder ==
    [][\A s \in Sessions :
          /\ \A q \in Prompts :
                ChatInput(s, q) =>
                    /\ chat_histories'[s][username[s]] =
                           Append(Transcript(s), Entry("user", q))
                    /\ pc[s] = "idle" /\ pc'[s] = "invoking"
          /\ \A r \in Responses :
                CompletionReturns(s, r) =>
                    /\ pc[s] = "invoking" /\ pc'[s] = "idle"
                    /\ Last(Transcript(s)).role = "user"
                    /\ chat_histories'[s][username[s]] =
                           Append(Transcript(s), Entry("assistant", r))
      ]_vars

\* a second turn has completed on top of a first one
C6_Witness ==
    /\ pc[1] = "idle" /\ logged_in[1]
    /\ Transcript(1) = <<Entry("user", "hello"), Entry("assistant", "hi"),
                         Entry("user", "bye"), Entry("assistant", "hi")>>

\* ----------------------------------------------------------------- C7
\* what the Completion Client was given is the transcript h, message by message
SameMessages(given, h) ==
    /\ Len(given) = Len(h)
    /\ \A i \in 1..Len(h) :
          /\ given[i].content = h[i].content
          /\ given[i].type = (IF h[i].role = "user" THEN "human" ELSE "ai")

\* C7: whenever a call is in flight, the list of messages the Completion
\* Client received is the user's current transcript, the new input included:
\* same length, roles, contents and order.
C7_ClientReceivesTranscript ==
    \A s \in Sessions :
        pc[s] = "invoking" => SameMessages(invoked[s], Transcript(s))

\* ----------------------------------------------------------------- C8
\* C8: when the call of a turn fails the error is shown and the session can
\* go on; the transcript is unchanged by the failure and ends with the user
\* message of the turn, and users and the session state are unchanged.
C8_FailureKeepsUserMessage ==
    [][\A s \in Sessions :
          CompletionFails(s) =>
              /\ pc[s] = "invoking" /\ pc'[s] = "idle"
              /\ notice'[s] = CompletionError
              /\ Last(Transcript(s)).role = "user"
              /\ chat_histories' = chat_histories
              /\ users' = users
              /\ logged_in' = logged_in /\ username' = username
      ]_vars

\* a call has failed: the transcript ends with the unanswered user message
C8_Witness ==
    /\ notice[1] = CompletionError
    /\ pc[1] = "idle" /\ logged_in[1]
    /\ Len(Transcript(1)) = 3
    /\ Last(Transcript(1)).role = "user"
    /\ Transcript(1)[2].role = "assistant"

\* ----------------------------------------------------------------- C9
\* C9: the messages the Completion Client receives for a session were all
\* created by that session's own conversation, never by another session's.
C9_NoForeignMessages ==
    \A s \in Sessions :
        \A i \in 1..Len(invoked[s]) : invoked[s][i].origin = s

\* ----------------------------------------------------------------- C10
\* C10: a press of Sign Up with a password shorter than 6 characters, an
\* empty name or an empty password shows a failure and leaves users and
\* chat_histories unchanged.
C10_InvalidSignupCreatesNothing ==
    [][\A s \in Sessions, u \in Usernames, p \in Passwords, c \in Passwords :
          (SignUpButton(s, u, p, c) /\ (Len(p) < 6 \/ u = "" \/ p = "")) =>
              /\ notice'[s] \in {FillAllFields, PasswordsDontMatch,
                                 UsernameExists, PasswordTooShort, CannotBeEmpty}
              /\ users' = users
              /\ chat_histories' = chat_histories
      ]_vars

\* signup() has refused a password that is too short, and no user exists
C10_Witness ==
    /\ notice[1] = PasswordTooShort
    /\ users[1] = <<>>
    /\ chat_histories[1] = <<>>

\* ----------------------------------------------------------------- C11
\* C11: a press of Sign Up, successful or not, leaves logged_in and the
\* bound username of the session as they were: a successful signup does not
\* log the new user in.
C11_SignupKeepsSession ==
    [][\A s \in Sessions, u \in Usernames, p \in Passwords, c \in Passwords :
          SignUpButton(s, u, p, c) =>
              /\ logged_in' = logged_in
              /\ username' = username
              /\ ~logged_in'[s] /\ username'[s] = None
      ]_vars

\* an account has just been created and the session is still anonymous
C11_Witness ==
    /\ notice[1] = AccountCreated
    /\ DOMAIN users[1] # {}
    /\ ~logged_in[1] /\ username[1] = None

\* ----------------------------------------------------------------- C12
\* C12: in every step every registered name stays registered with the same
\* password, and a name is added to users only by a press of Sign Up that
\* answers "Account created successfully".
C12_UsersOnlyGrow ==
    [][\A s \in Sessions :
          /\ \A u \in DOMAIN users[s] :
                u \in DOMAIN users'[s] /\ users'[s][u] = users[s][u]
          /\ DOMAIN users'[s] # DOMAIN users[s] =>
                \E u \in Usernames, p \in Passwords :
                    /\ SignUpButton(s, u, p, p)
                    /\ notice'[s] = AccountCreated
                    /\ DOMAIN users'[s] = DOMAIN users[s] \cup {u}
      ]_vars

\* two users are registered and a signup with a registered name was refused
C12_Witness ==
    /\ Cardinality(DOMAIN users[1]) = 2
    /\ notice[1] = UsernameExists
    /\ \E u \in DOMAIN users[1] : Len(chat_histories[1][u]) > 0

\* ----------------------------------------------------------------- C13
\* p is a prefix of q
IsPrefix(p, q) == Len(p) <= Len(q) /\ SubSeq(q, 1, Len(p)) = p

\* the step is a press of Clear Chat History in some session
IsClear == \E s \in Sessions : ClearButton(s)

\* C13: in every step that is not clear-history every transcript before the
\* step is a prefix of the same user's transcript after it, growing by at
\* most one message; a clear-history step empties the transcript of the
\* bound user whole and leaves every other transcript as it was.
C13_TranscriptsAppendOnly ==
    [][\A s \in Sessions :
          /\ ~IsClear =>
                \A u \in DOMAIN chat_histories[s] :
                    /\ u \in DOMAIN chat_histories'[s]
                    /\ IsPrefix(chat_histories[s][u], chat_histories'[s][u])
                    /\ Len(chat_histories'[s][u]) <= Len(chat_histories[s][u]) + 1
          /\ ClearButton(s) =>
                \A u \in DOMAIN chat_histories[s] :
                    /\ u \in DOMAIN chat_histories'[s]
                    /\ chat_histories'[s][u] =
                           (IF u = username[s] THEN <<>> ELSE chat_histories[s][u])
      ]_vars

\* a transcript has grown to two turns while another user's was kept
C13_Witness ==
    /\ logged_in[1] /\ pc[1] = "idle"
    /\ Len(Transcript(1)) = 2
    /\ \E b \in DOMAIN chat_histories[1] \ {username[1]} :
          Len(chat_histories[1][b]) = 2

\* ----------------------------------------------------------------- C14
\* an assistant message is appended to a transcript of session s in the step
AssistantAppended(s) ==
    \E u \in DOMAIN chat_histories[s] :
        /\ u \in DOMAIN chat_histories'[s]
        /\ Len(chat_histories'[s][u]) = Len(chat_histories[s][u]) + 1
        /\ Last(chat_histories'[s][u]).role = "assistant"

\* C14: submitting a turn issues one call; the return or the failure of that
\* call issues none and ends the turn, so a failed call is not retried; and
\* an assistant message is appended only by the return of a call in flight.
C14_OneCallPerTurn ==
    [][\A s \in Sessions :
          /\ \A q \in Prompts :
                ChatInput(s, q) => calls' = calls + 1 /\ pc'[s] = "invoking"
          /\ \A r \in Responses :
                CompletionReturns(s, r) => calls' = calls /\ pc'[s] = "idle"
          /\ CompletionFails(s) => calls' = calls /\ pc'[s] = "idle"
          /\ calls' # calls => \E t \in Sessions : pc[t] = "idle" /\ pc'[t] = "invoking"
          /\ AssistantAppended(s) => pc[s] = "invoking" /\ calls' = calls
      ]_vars

\* two turns were submitted, one answered and one failed: two calls
C14_Witness ==
    /\ calls = 2
    /\ notice[1] = CompletionError
    /\ pc[1] = "idle" /\ logged_in[1]
    /\ Len(Transcript(1)) = 3

\* ----------------------------------------------------------------- C15
\* logged_in iff a user is bound, and a bound user is a key of both stores
SessionConsistent(li, un, us, hs) ==
    \A s \in Sessions :
        /\ li[s] <=> un[s] # None
        /\ un[s] # None => un[s] \in DOMAIN us[s] /\ un[s] \in DOMAIN hs[s]

\* C15: in every state logged_in holds iff a username is bound, and a bound
\* username is a key of users and of chat_histories; an existing transcript
\* changes in a step only if the session is authenticated and the transcript
\* is the bound user's.
C15_SessionConsistent ==
    [][/\ SessionConsistent(logged_in, username, users, chat_histories)
       /\ SessionConsistent(logged_in', username', users', chat_histories')
       /\ \A s \in Sessions : \A u \in DOMAIN chat_histories[s] :
             (u \notin DOMAIN chat_histories'[s]
                 \/ chat_histories'[s][u] # chat_histories[s][u]) =>
                 logged_in[s] /\ username[s] = u
      ]_vars

\* an authenticated session whose user's transcript was modified, beside a
\* registered user who is not bound
C15_Witness ==
    /\ logged_in[1] /\ username[1] # None
    /\ Len(Transcript(1)) > 0
    /\ Cardinality(DOMAIN users[1]) = 2

====
